---- MODULE Spec2Model ----
(***************************************************************************)
(* Model of the background job pipeline of teleGRAMMO (telegram_scraper):  *)
(* the relational rows (ScrapingJob, UserChannel, Message, Media,          *)
(* TelegramSession, KeywordAlert/KeywordMatch), the arq task queue, the    *)
(* scrape_channel / download_* worker tasks, the periodic scheduler and    *)
(* the HTTP handlers that create and cancel jobs.                          *)
(*                                                                         *)
(* Every `await db.commit()` of a worker task is a point where other       *)
(* requests and tasks interleave, so a worker task is a sequence of        *)
(* actions, one per committed unit of work.  The HTTP handlers are short   *)
(* and are modelled as one action each.                                    *)
(*                                                                         *)
(* Worker sessions are built with expire_on_commit=False                   *)
(* (scrape_channel.py:36, scheduler.py:24, download_media.py:27).  An ORM  *)
(* object that is already in the session's identity map is therefore never *)
(* refreshed by a later SELECT: the worker keeps the attribute values it   *)
(* loaded or assigned itself.  The model keeps these cached attribute      *)
(* values next to the committed rows (status_view, the scheduler's `due`   *)
(* snapshot, the media views), and an UPDATE writes exactly the attributes *)
(* whose assigned value differs from the cached one.                       *)
(***************************************************************************)
EXTENDS Integers, Sequences, FiniteSets, TLC

\* ---------------------------------------------------------------- bounds
NumUsers == 2
NumChannels == 1
MaxMsgId == 2
MaxJobs == 2
MaxTime == 1
MaxInterval == 2

\* settings.batch_size (config.py:44, default 100, read from the environment):
\* the model runs with a small value so that a batch commit happens.
batch_size == 2

\* scrape_channel.py:176  `messages_processed % 100 == 0`
CancelCheckEvery == 100

\* scheduler_service.py:85  `schedule_interval_hours or 24`
DefaultIntervalHours == 24

\* media.py:32 / worker.py:72 / download_media.py:186  `limit: int = 10`
DefaultBatchLimit == 10

NULL == -1

\* rows of telegram_sessions a run creates through POST /telegram/sessions
MaxSessions == 2

Users == 1..NumUsers
SessionIds == 1..MaxSessions
\* telegram ids a user can ask to track; channel c of Channels has telegram id c
MaxTelegramId == 2
TelegramIds == 1..MaxTelegramId
\* add_channel calls that can be in progress at the same time
MaxAddCalls == 2
AddCalls == 1..MaxAddCalls
Channels == 1..NumChannels
MsgIds == 1..MaxMsgId
JobIds == 1..MaxJobs
Intervals == 1..MaxInterval

\* message.text of a Telegram message, as a sequence of characters
Texts == { <<"o", "k">>, <<"B", "U", "Y">> }
PlainText == <<"o", "k">>
\* media kinds get_media_type can return (None is "none")
MediaTypes == {"none", "photo", "webpage"}
JobTypes == {"incremental", "full_scrape"}

VARIABLES
    now,               \* wall clock, in hours
    history,           \* Telegram side: per channel the posted messages, index = message id
    telegram_sessions, \* table telegram_sessions
    user_channels,     \* table user_channels, one row per (user, channel)
    jobs,              \* table scraping_jobs, index = job id
    messages,          \* table messages
    media,             \* table media
    queue,             \* arq queue: scrape_channel_task entries
    worker,            \* per job id: the scrape_channel task working on it
    sched,             \* the check_scheduled_jobs run in progress
    dl_queue,          \* arq queue: the download tasks waiting for a worker (indices of dl)
    dl,                \* the download tasks enqueued so far, with their progress
    keyword_alerts,    \* table keyword_alerts
    keyword_matches,   \* table keyword_matches
    auth_state,        \* TelegramService._auth_state: the login in progress per session id
    channels,          \* table channels, as rows with their own ids
    user_channel_rows, \* table user_channels as rows with their own ids, where the
                       \* number of rows per (user, channel) is the question
    add_calls,         \* the add_channel calls in progress
    response           \* what the last request to the API or a service method answered

vars == <<now, history, telegram_sessions, user_channels, jobs, messages, media,
          queue, worker, sched, dl_queue, dl, keyword_alerts, keyword_matches, channels,
          user_channel_rows, add_calls, auth_state, response>>

\* ---------------------------------------------------------------- helpers
\* an answer of the API: the operation, its outcome, the rows it returns
Response(op, result, rows) == [op |-> op, result |-> result, rows |-> rows]

NoResponse == Response("none", "none", {})

Max(S) == CHOOSE x \in S : \A y \in S : y <= x

Min(S) == CHOOSE x \in S : \A y \in S : x <= y

IdleWorker ==
    [pc |-> "none", args |-> NULL, status_view |-> "none", last |-> 0, batch |-> {},
     messages_processed |-> 0, media_found |-> 0, pending_media |-> {}, result |-> "none"]

IdleSched == [due |-> {}]

\* rows of scraping_jobs with status pending or running on a channel
ActiveJobsOnChannel(c) ==
    { j \in 1..Len(jobs) : jobs[j].channel_id = c /\ jobs[j].status \in {"pending", "running"} }

\* the pending or running jobs of a user: the ones the user can cancel
ActiveJobsOf(u) ==
    { j \in 1..Len(jobs) : jobs[j].user_id = u /\ jobs[j].status \in {"pending", "running"} }

\* job_service.py:40-46  rows matched by create_job's "existing" query
ActiveJobsOfUserOnChannel(u, c) ==
    { j \in ActiveJobsOnChannel(c) : jobs[j].user_id = u }

\* rows of telegram_sessions of a user with is_authenticated
AuthenticatedSessions(u) ==
    { s \in telegram_sessions : s.user_id = u /\ s.is_authenticated }

\* telegram_message_id values stored for a channel
StoredIds(c) == { m.telegram_message_id : m \in { r \in messages : r.channel_id = c } }

\* an add_channel call that has not started
IdleAdd ==
    [pc |-> "idle", user_id |-> 0, telegram_id |-> 0, channel |-> NULL,
     inserted |-> FALSE, user_channel |-> NULL]

\* the Channel rows of the channels every user tracks from the start
ChannelSeeds == { [id |-> c, telegram_id |-> c] : c \in Channels }

\* the rows of user_channels, one per (user, channel) of uc
UserChannelRows(uc) ==
    { [id |-> (k[1] - 1) * NumChannels + k[2], user_id |-> k[1], channel_id |-> k[2],
       is_active |-> uc[k].is_active,
       last_scraped_message_id |-> uc[k].last_scraped_message_id] : k \in DOMAIN uc }

\* ---------------------------------------------------------------- initial state
\* The tables after users registered, logged in to Telegram and added the channel:
\* every user tracks every channel, no job, message or media row exists yet.
SessionSeeds ==
    { { [id |-> u, user_id |-> u, is_authenticated |-> TRUE, session_string |-> TRUE] : u \in Users } }

FreshUserChannel ==
    [is_active |-> TRUE, last_scraped_message_id |-> 0, schedule_enabled |-> FALSE,
     schedule_interval_hours |-> NULL, last_scheduled_at |-> NULL, next_scheduled_at |-> NULL]

InitCommon ==
    /\ now = 0
    /\ history = [c \in Channels |-> << >>]
    /\ user_channels = [uc \in Users \X Channels |-> FreshUserChannel]
    /\ jobs = << >>
    /\ messages = {}
    /\ media = << >>
    /\ queue = {}
    /\ worker = [j \in JobIds |-> IdleWorker]
    /\ sched = IdleSched
    /\ dl_queue = {}
    /\ dl = << >>
    /\ keyword_alerts = {}
    /\ keyword_matches = {}
    /\ auth_state = [sid \in SessionIds |-> "none"]
    /\ channels = ChannelSeeds
    /\ user_channel_rows = UserChannelRows(user_channels)
    /\ add_calls = [k \in AddCalls |-> IdleAdd]
    /\ response = NoResponse

Init ==
    /\ InitCommon
    /\ telegram_sessions \in SessionSeeds

\* ---------------------------------------------------------------- Telegram side
\* A new message is posted in a channel; Telegram numbers messages 1, 2, 3, ...
PostMessage(c, text, mtype) ==
    /\ Len(history[c]) < MaxMsgId
    /\ history' = [history EXCEPT ![c] =
                       Append(@, [text |-> text, media_type |-> mtype, service |-> FALSE])]
    /\ UNCHANGED <<now, telegram_sessions, user_channels, jobs, messages, media, queue,
                   worker, sched, dl_queue, dl, keyword_alerts, keyword_matches, channels,
                   user_channel_rows, add_calls, auth_state, response>>

\* Telegram records a service message (a join, a pin, a title change) in the
\* channel: it takes the next message id, and iter_messages yields it as a
\* MessageService, which is not a telethon.tl.types.Message
PostServiceMessage(c) ==
    /\ Len(history[c]) < MaxMsgId
    /\ history' = [history EXCEPT ![c] =
                       Append(@, [text |-> << >>, media_type |-> "none", service |-> TRUE])]
    /\ UNCHANGED <<now, telegram_sessions, user_channels, jobs, messages, media, queue,
                   worker, sched, dl_queue, dl, keyword_alerts, keyword_matches, channels,
                   user_channel_rows, add_calls, auth_state, response>>

\* ---------------------------------------------------------------- POST /jobs/scrape
\* JobService.create_job: what the two guard queries answer
create_job_outcome(u, c) ==
    IF ~user_channels[<<u, c>>].is_active THEN "not_accessible"
    ELSE IF Cardinality(ActiveJobsOfUserOnChannel(u, c)) = 1 THEN "already_running"
    ELSE IF Cardinality(ActiveJobsOfUserOnChannel(u, c)) > 1 THEN "multiple_results"
    ELSE "ok"

NewJob(u, c, job_type) ==
    [user_id |-> u, channel_id |-> c, job_type |-> job_type, status |-> "pending",
     messages_processed |-> 0, media_downloaded |-> 0, error_message |-> FALSE,
     completed_at |-> NULL]

\* from_message_id computed by create_scrape_job
api_from_message_id(u, c, job_type) ==
    IF job_type = "incremental" THEN user_channels[<<u, c>>].last_scraped_message_id ELSE 0

ScrapeTask(jid, u, c, sid, from_id, scrape_media) ==
    [job_id |-> jid, user_id |-> u, channel_id |-> c, session_id |-> sid,
     from_message_id |-> from_id, scrape_media |-> scrape_media]

\* create_scrape_job: the job row is committed by create_job; the request then fails
\* with 400 when the user has no authenticated session (the row stays), otherwise
\* it enqueues scrape_channel_task.  A request refused by create_job changes nothing.
CreateScrapeJob(u, c, job_type, scrape_media) ==
    /\ Len(jobs) < MaxJobs
    /\ create_job_outcome(u, c) = "ok"
    /\ jobs' = Append(jobs, NewJob(u, c, job_type))
    /\ IF AuthenticatedSessions(u) = {}
       THEN queue' = queue
       ELSE \E s \in AuthenticatedSessions(u) :
              queue' = queue \cup { ScrapeTask(Len(jobs) + 1, u, c, s.id,
                                               api_from_message_id(u, c, job_type), scrape_media) }
    /\ UNCHANGED <<now, history, telegram_sessions, user_channels, messages, media,
                   worker, sched, dl_queue, dl, keyword_alerts, keyword_matches, channels,
                   user_channel_rows, add_calls, auth_state, response>>

\* ---------------------------------------------------------------- POST /jobs/{id}/cancel
\* cancel_job without the status test of job_service.py:160-161
cancel_job_result_any_status(u, j) ==
    IF j \notin 1..Len(jobs) \/ jobs[j].user_id # u THEN "not_found" ELSE "cancelled"

\* cancel_job without `ScrapingJob.user_id == user_id` in its query
cancel_job_result_any_user(u, j) ==
    IF j \notin 1..Len(jobs) THEN "not_found"
    ELSE IF jobs[j].status \notin {"pending", "running"} THEN "ValueError"
    ELSE "cancelled"

\* JobService.cancel_job: False for a job that does not exist or is not the
\* caller's, ValueError for a job that is not pending or running, else True
cancel_job_result(u, j) ==
    IF j \notin 1..Len(jobs) \/ jobs[j].user_id # u THEN "not_found"
    ELSE IF jobs[j].status \notin {"pending", "running"} THEN "ValueError"
    ELSE "cancelled"

\* the handler answers 404 for False, 400 for the ValueError, else {"status": "cancelled"}
cancel_job(u, j) ==
    /\ jobs' = IF cancel_job_result(u, j) = "cancelled"
               THEN [jobs EXCEPT ![j].status = "cancelled", ![j].completed_at = now]
               ELSE jobs
    /\ response' = Response("cancel_job", cancel_job_result(u, j), {})
    /\ UNCHANGED <<now, history, telegram_sessions, user_channels, messages, media, queue,
                   worker, sched, dl_queue, dl, keyword_alerts, keyword_matches, channels,
                   user_channel_rows, add_calls, auth_state>>

\* ---------------------------------------------------------------- scrape_channel
\* a get_telegram_client that builds a client for any session id
get_telegram_client_unchecked(sid) == TRUE

\* get_telegram_client: None when the session row is missing or has no session_string
get_telegram_client(sid) ==
    \E s \in telegram_sessions : s.id = sid /\ s.session_string

\* get_media_type + the filter of scrape_channel.py:241
TracksMedia(mtype, scrape_media) ==
    mtype # "none" /\ scrape_media /\ mtype # "webpage"

MessageRow(j, c, id) ==
    [channel_id |-> c, telegram_message_id |-> id, message_text |-> history[c][id].text, row |-> j]

MediaRow(c, id) ==
    [channel_id |-> c, telegram_message_id |-> id, media_type |-> history[c][id].media_type,
     download_status |-> "pending", download_attempts |-> 0]

\* rows a commit of the worker session inserts
BatchRows(j, c, ids) == { MessageRow(j, c, id) : id \in ids }

PendingMediaRows(j, c, ids) == [k \in { <<j, id>> : id \in ids } |-> MediaRow(c, k[2])]

\* the cached job.status the worker compares in its cancellation checks
\* (identity map, never refreshed: see the module comment)
job_status_seen(j) == worker[j].status_view

\* lines 110-145: set the job running, look up the channel, build the client
ScrapeStart(t) ==
    LET j == t.job_id IN
    /\ t \in queue
    /\ worker[j].pc = "none"
    /\ queue' = queue \ {t}
    /\ jobs' = [jobs EXCEPT ![j].status = "running"]
    /\ worker' = [worker EXCEPT ![j] =
                    [IdleWorker EXCEPT !.pc = IF get_telegram_client(t.session_id)
                                              THEN "iterate" ELSE "except",
                                       !.args = t,
                                       !.status_view = "running",
                                       !.last = t.from_message_id]]
    /\ UNCHANGED <<now, history, telegram_sessions, user_channels, messages, media,
                   sched, dl_queue, dl, keyword_alerts, keyword_matches, channels,
                   user_channel_rows, add_calls, auth_state, response>>

\* ids iter_messages(min_id=..., reverse=True) still has to yield
RemainingIds(j) ==
    { i \in 1..Len(history[worker[j].args.channel_id]) : i > worker[j].last }

\* lines 275-278: insert the remaining batch (with the media records added to the session)
FlushRemaining(j) ==
    LET w == worker[j]  c == w.args.channel_id IN
    IF w.batch # {}
    THEN /\ messages' = messages \cup BatchRows(j, c, w.batch)
         /\ media' = PendingMediaRows(j, c, w.pending_media) @@ media
    ELSE /\ UNCHANGED <<messages, media>>

\* a loop that also passes over the messages without media
not_a_message_or_plain(m) == m.service \/ m.media_type = "none"

\* lines 172-173: `not isinstance(message, TelegramMessage)`, the loop continues
not_a_message(m) == m.service

\* lines 167-273: one turn of the message loop
ScrapeMessage(j) ==
    LET w == worker[j]
        c == w.args.channel_id
        id == Min(RemainingIds(j))
        mtype == history[c][id].media_type
        tracked == TracksMedia(mtype, w.args.scrape_media)
        batch2 == w.batch \cup {id}
        pending2 == IF tracked THEN w.pending_media \cup {id} ELSE w.pending_media
        found2 == IF tracked THEN w.media_found + 1 ELSE w.media_found
        processed2 == w.messages_processed + 1
    IN
    /\ w.pc = "iterate"
    /\ RemainingIds(j) # {}
    /\ IF not_a_message(history[c][id])
       THEN \* continue
            /\ worker' = [worker EXCEPT ![j].last = id]
            /\ UNCHANGED <<jobs, messages, media>>
       ELSE IF w.messages_processed % CancelCheckEvery = 0 /\ job_status_seen(j) = "cancelled"
       THEN \* break
            /\ FlushRemaining(j)
            /\ worker' = [worker EXCEPT ![j].pc = "cursor", ![j].batch = {},
                                        ![j].pending_media = {}]
            /\ UNCHANGED jobs
       ELSE IF id \in StoredIds(c)
       THEN \* skip existing messages
            /\ worker' = [worker EXCEPT ![j].last = id]
            /\ UNCHANGED <<jobs, messages, media>>
       ELSE IF Cardinality(batch2) >= batch_size
       THEN \* batch insert and progress update
            /\ messages' = messages \cup BatchRows(j, c, batch2)
            /\ media' = PendingMediaRows(j, c, pending2) @@ media
            /\ jobs' = [jobs EXCEPT ![j].messages_processed = processed2,
                                    ![j].media_downloaded = found2]
            /\ worker' = [worker EXCEPT ![j].last = id, ![j].batch = {},
                                        ![j].pending_media = {},
                                        ![j].messages_processed = processed2,
                                        ![j].media_found = found2]
       ELSE /\ worker' = [worker EXCEPT ![j].last = id, ![j].batch = batch2,
                                        ![j].pending_media = pending2,
                                        ![j].messages_processed = processed2,
                                        ![j].media_found = found2]
            /\ UNCHANGED <<jobs, messages, media>>
    /\ UNCHANGED <<now, history, telegram_sessions, user_channels, queue,
                   sched, dl_queue, dl, keyword_alerts, keyword_matches, channels,
                   user_channel_rows, add_calls, auth_state, response>>

\* the loop ends when Telegram has no more messages: lines 275-278
ScrapeIterEnd(j) ==
    /\ worker[j].pc = "iterate"
    /\ RemainingIds(j) = {}
    /\ FlushRemaining(j)
    /\ worker' = [worker EXCEPT ![j].pc = "cursor", ![j].batch = {}, ![j].pending_media = {}]
    /\ UNCHANGED <<now, history, telegram_sessions, user_channels, jobs, queue,
                   sched, dl_queue, dl, keyword_alerts, keyword_matches, channels,
                   user_channel_rows, add_calls, auth_state, response>>

\* a Telegram call of the loop raises (network error, flood wait): control goes to
\* the except block, the batch that was not inserted yet is dropped
ScrapeRaise(j) ==
    /\ worker[j].pc = "iterate"
    /\ worker' = [worker EXCEPT ![j].pc = "except", ![j].batch = {}]
    /\ UNCHANGED <<now, history, telegram_sessions, user_channels, jobs, messages, media,
                   queue, sched, dl_queue, dl, keyword_alerts, keyword_matches, channels,
                   user_channel_rows, add_calls, auth_state, response>>

\* the query of lines 289-295 ordered ascending instead of descending: the
\* smallest stored id
max_msg_id_asc(c) == IF StoredIds(c) = {} THEN 0 ELSE Min(StoredIds(c))

\* the cursor value lines 289-298 compute
max_msg_id(c) == IF StoredIds(c) = {} THEN 0 ELSE Max(StoredIds(c))

\* lines 280-299: update user_channel with the last scraped message
ScrapeCursor(j) ==
    LET w == worker[j]  u == w.args.user_id  c == w.args.channel_id IN
    /\ w.pc = "cursor"
    /\ IF w.messages_processed > 0 /\ max_msg_id(c) # 0
       THEN user_channels' = [user_channels EXCEPT ![<<u, c>>].last_scraped_message_id = max_msg_id(c)]
       ELSE UNCHANGED user_channels
    /\ worker' = [worker EXCEPT ![j].pc = "complete"]
    /\ UNCHANGED <<now, history, telegram_sessions, jobs, messages, media, queue,
                   sched, dl_queue, dl, keyword_alerts, keyword_matches, channels,
                   user_channel_rows, add_calls, auth_state, response>>

\* lines 301-323: update job as completed
ScrapeComplete(j) ==
    LET w == worker[j] IN
    /\ w.pc = "complete"
    /\ IF job_status_seen(j) # "cancelled"
       THEN jobs' = [jobs EXCEPT ![j].status = "completed",
                                 ![j].messages_processed = w.messages_processed,
                                 ![j].media_downloaded = w.media_found,
                                 ![j].completed_at = now]
       ELSE UNCHANGED jobs
    /\ worker' = [worker EXCEPT ![j] = [IdleWorker EXCEPT !.pc = "done", !.args = w.args,
                                                          !.result = "completed"]]
    /\ UNCHANGED <<now, history, telegram_sessions, user_channels, messages, media, queue,
                   sched, dl_queue, dl, keyword_alerts, keyword_matches, channels,
                   user_channel_rows, add_calls, auth_state, response>>

\* lines 325-348: update job as failed; the commit also inserts the media records
\* that were added to the session for messages of the dropped batch
ScrapeExcept(j) ==
    LET w == worker[j]  c == w.args.channel_id IN
    /\ w.pc = "except"
    /\ jobs' = [jobs EXCEPT ![j].status = "failed",
                            ![j].error_message = TRUE,
                            ![j].completed_at = now,
                            ![j].messages_processed = w.messages_processed]
    /\ media' = PendingMediaRows(j, c, w.pending_media) @@ media
    /\ worker' = [worker EXCEPT ![j] = [IdleWorker EXCEPT !.pc = "done", !.args = w.args,
                                                          !.result = "failed"]]
    /\ UNCHANGED <<now, history, telegram_sessions, user_channels, messages, queue,
                   sched, dl_queue, dl, keyword_alerts, keyword_matches, channels,
                   user_channel_rows, add_calls, auth_state, response>>

ScrapeStep ==
    \/ \E t \in queue : ScrapeStart(t)
    \/ \E j \in JobIds : ScrapeMessage(j)
    \/ \E j \in JobIds : ScrapeIterEnd(j)
    \/ \E j \in JobIds : ScrapeRaise(j)
    \/ \E j \in JobIds : ScrapeCursor(j)
    \/ \E j \in JobIds : ScrapeComplete(j)
    \/ \E j \in JobIds : ScrapeExcept(j)

\* ---------------------------------------------------------------- clock
Tick ==
    /\ now < MaxTime
    /\ now' = now + 1
    /\ UNCHANGED <<history, telegram_sessions, user_channels, jobs, messages, media, queue,
                   worker, sched, dl_queue, dl, keyword_alerts, keyword_matches, channels,
                   user_channel_rows, add_calls, auth_state, response>>

\* ---------------------------------------------------------------- PUT /channels/{id}/schedule
\* A request that enables the schedule without interval_hours >= 1 is answered 400
\* before the commit and changes nothing.
update_channel_schedule(u, c, enabled, interval_hours) ==
    /\ enabled => interval_hours # NULL /\ interval_hours >= 1
    /\ user_channels' =
         [user_channels EXCEPT ![<<u, c>>] =
            IF enabled
            THEN [@ EXCEPT !.schedule_enabled = TRUE,
                           !.schedule_interval_hours = interval_hours,
                           !.next_scheduled_at = now + interval_hours]
            ELSE [@ EXCEPT !.schedule_enabled = FALSE,
                           !.next_scheduled_at = NULL]]
    /\ UNCHANGED <<now, history, telegram_sessions, jobs, messages, media, queue,
                   worker, sched, dl_queue, dl, keyword_alerts, keyword_matches, channels,
                   user_channel_rows, add_calls, auth_state, response>>

\* ---------------------------------------------------------------- check_scheduled_jobs
\* get_due_schedules: the UserChannel objects the run loads, with the attribute
\* values it will read later (they are not reloaded: see the module comment)
get_due_schedules ==
    { [user_id |-> uc[1], channel_id |-> uc[2],
       last_scraped_message_id |-> user_channels[uc].last_scraped_message_id,
       schedule_interval_hours |-> user_channels[uc].schedule_interval_hours]
      : uc \in { k \in Users \X Channels :
                   /\ user_channels[k].schedule_enabled
                   /\ user_channels[k].is_active
                   /\ user_channels[k].next_scheduled_at # NULL
                   /\ user_channels[k].next_scheduled_at <= now } }

\* has_active_job: scalar_one_or_none() raises MultipleResultsFound on two rows
has_active_job(c) ==
    IF Cardinality(ActiveJobsOnChannel(c)) > 1 THEN "raises"
    ELSE IF Cardinality(ActiveJobsOnChannel(c)) = 1 THEN "yes" ELSE "no"

\* get_user_session: scalar_one_or_none() over the user's authenticated sessions
get_user_session(u) ==
    IF Cardinality(AuthenticatedSessions(u)) > 1 THEN "raises"
    ELSE IF Cardinality(AuthenticatedSessions(u)) = 1 THEN "found" ELSE "none"

calculate_next_run(interval_hours) ==
    now + (IF interval_hours = NULL \/ interval_hours = 0 THEN DefaultIntervalHours ELSE interval_hours)

\* a mark_scheduled_run that writes the whole loaded object back, cursor included
mark_scheduled_run_whole_row(item) ==
    user_channels' =
        [user_channels EXCEPT ![<<item.user_id, item.channel_id>>] =
            [@ EXCEPT !.last_scheduled_at = now,
                      !.next_scheduled_at = calculate_next_run(item.schedule_interval_hours),
                      !.last_scraped_message_id = item.last_scraped_message_id]]

\* mark_scheduled_run on a loaded UserChannel object: the UPDATE sets the two
\* timestamps, the interval is the one the run loaded
mark_scheduled_run(item) ==
    user_channels' =
        [user_channels EXCEPT ![<<item.user_id, item.channel_id>>] =
            [@ EXCEPT !.last_scheduled_at = now,
                      !.next_scheduled_at = calculate_next_run(item.schedule_interval_hours)]]

\* ScrapingJob(..., session_id=session.id, ...) at scheduler.py:60-66.  The mapped
\* class (models/scraping_job.py) declares no session_id; what the constructor does
\* with the keyword is decided by Base in models/base.py, which is not among the
\* sources: the declarative default raises TypeError (caught by the loop's except),
\* a constructor that tolerates the keyword builds the row.
ScrapingJobInitOutcomes == {"constructed", "TypeError"}

\* redis.enqueue_job at scheduler.py:72-79 runs after the job row is committed
\* (lines 67-69); when Redis is not reachable it raises, the loop's except logs the
\* error and goes on with the next UserChannel
EnqueueOutcomes == {"enqueued", "raises"}

\* The cron run starts: scheduler.py:40-42.  A run that finds nothing due returns at once.
SchedStart ==
    /\ sched.due = {}
    /\ get_due_schedules # {}
    /\ sched' = [due |-> get_due_schedules]
    /\ UNCHANGED <<now, history, telegram_sessions, user_channels, jobs, messages, media,
                   queue, worker, dl_queue, dl, keyword_alerts, keyword_matches, channels,
                   user_channel_rows, add_calls, auth_state, response>>

\* One turn of the loop over due_schedules: scheduler.py:44-94
SchedProcess(item) ==
    LET u == item.user_id  c == item.channel_id IN
    /\ item \in sched.due
    /\ (has_active_job(c) = "no" /\ get_user_session(u) = "found") => Len(jobs) < MaxJobs
    /\ sched' = [due |-> sched.due \ {item}]
    /\ IF has_active_job(c) = "raises"
       THEN UNCHANGED <<user_channels, jobs, queue>>
       ELSE IF has_active_job(c) = "yes"
       THEN mark_scheduled_run(item) /\ UNCHANGED <<jobs, queue>>
       ELSE IF get_user_session(u) # "found"
       THEN UNCHANGED <<user_channels, jobs, queue>>
       ELSE \E outcome \in ScrapingJobInitOutcomes :
              IF outcome = "TypeError"
              THEN UNCHANGED <<user_channels, jobs, queue>>
              ELSE /\ jobs' = Append(jobs, NewJob(u, c, "scheduled"))
                   /\ \E enqueue_job \in EnqueueOutcomes :
                        IF enqueue_job = "raises"
                        THEN UNCHANGED <<user_channels, queue>>
                        ELSE /\ \E s \in AuthenticatedSessions(u) :
                                  queue' = queue \cup
                                     { ScrapeTask(Len(jobs) + 1, u, c, s.id,
                                                  item.last_scraped_message_id, TRUE) }
                             /\ mark_scheduled_run(item)
    /\ UNCHANGED <<now, history, telegram_sessions, messages, media, worker,
                   dl_queue, dl, keyword_alerts, keyword_matches, channels, user_channel_rows,
                   add_calls, auth_state, response>>

Next ==
    \/ \E c \in Channels, mt \in MediaTypes : PostMessage(c, PlainText, mt)
    \/ \E u \in Users, c \in Channels, jt \in JobTypes : CreateScrapeJob(u, c, jt, TRUE)
    \/ \E u \in Users : \E j \in ActiveJobsOf(u) : cancel_job(u, j)
    \/ ScrapeStep

Spec == Init /\ [][Next]_vars

\* The same pipeline on channels whose history also holds service messages.
HistoryMediaTypes == {"none", "photo"}

NextHistory ==
    \/ \E c \in Channels, mt \in HistoryMediaTypes : PostMessage(c, PlainText, mt)
    \/ \E c \in Channels : PostServiceMessage(c)
    \/ \E u \in Users, c \in Channels, jt \in JobTypes : CreateScrapeJob(u, c, jt, TRUE)
    \/ \E u \in Users : \E j \in ActiveJobsOf(u) : cancel_job(u, j)
    \/ ScrapeStep

SpecHistory == Init /\ [][NextHistory]_vars

\* ---------------------------------------------------------------- scheduling
\* The pipeline with the periodic scheduler; the users listed in Schedulers use
\* PUT /channels/{id}/schedule.
NumSchedulers == 1
Schedulers == 1..NumSchedulers

SchedSessionSeeds ==
    SessionSeeds \cup
    { { [id |-> u, user_id |-> u, is_authenticated |-> TRUE, session_string |-> TRUE] : u \in Users }
      \cup { [id |-> NumUsers + 1, user_id |-> 1, is_authenticated |-> TRUE, session_string |-> TRUE] } }

InitSched ==
    /\ InitCommon
    /\ telegram_sessions \in SchedSessionSeeds

NextSched ==
    \/ \E c \in Channels : PostMessage(c, PlainText, "none")
    \/ \E u \in Users, c \in Channels : CreateScrapeJob(u, c, "incremental", TRUE)
    \/ ScrapeStep
    \/ Tick
    \/ \E u \in Schedulers, c \in Channels, en \in BOOLEAN, ih \in Intervals :
          update_channel_schedule(u, c, en, ih)
    \/ SchedStart
    \/ \E item \in sched.due : SchedProcess(item)

SpecSched == InitSched /\ [][NextSched]_vars

\* ---------------------------------------------------------------- media downloads
MaxDownloadTasks == 2

\* BatchDownloadRequest.limit: the default and a request for one file
BatchLimits == {1, DefaultBatchLimit}

\* the "session belongs to user" query of the two download endpoints
SessionOfUser(u, sid) ==
    \E s \in telegram_sessions : s.id = sid /\ s.user_id = u

\* rows the queries `Media.channel_id == ... , Media.download_status == "pending"` match
PendingMedia(c) ==
    { k \in DOMAIN media : media[k].channel_id = c /\ media[k].download_status = "pending" }

\* an entry of the arq queue for download_media_task / download_media_batch_task,
\* with the locals of the task that later runs it
DownloadTask(kind, media_id, c, sid, limit) ==
    [kind |-> kind, media_id |-> media_id, channel_id |-> c, session_id |-> sid,
     limit |-> limit, pc |-> "queued", media_list |-> {}, current |-> << >>,
     attempts_seen |-> << >>]

\* POST /media/{media_id}/start-download: 404 for a media of a channel the user does
\* not track, an early return for completed and downloading, 400 for a foreign session
start_media_download(u, k, sid) ==
    /\ Len(dl) < MaxDownloadTasks
    /\ k \in DOMAIN media
    /\ user_channels[<<u, media[k].channel_id>>].is_active
    /\ media[k].download_status \notin {"completed", "downloading"}
    /\ SessionOfUser(u, sid)
    /\ dl' = Append(dl, DownloadTask("single", k, media[k].channel_id, sid, 0))
    /\ dl_queue' = dl_queue \cup {Len(dl) + 1}
    /\ UNCHANGED <<now, history, telegram_sessions, user_channels, jobs, messages, media,
                   queue, worker, sched, keyword_alerts, keyword_matches, channels,
                   user_channel_rows, add_calls, auth_state, response>>

\* POST /media/batch-download
start_batch_download(u, c, sid, limit) ==
    /\ Len(dl) < MaxDownloadTasks
    /\ user_channels[<<u, c>>].is_active
    /\ SessionOfUser(u, sid)
    /\ PendingMedia(c) # {}
    /\ dl' = Append(dl, DownloadTask("batch", << >>, c, sid, limit))
    /\ dl_queue' = dl_queue \cup {Len(dl) + 1}
    /\ UNCHANGED <<now, history, telegram_sessions, user_channels, jobs, messages, media,
                   queue, worker, sched, keyword_alerts, keyword_matches, channels,
                   user_channel_rows, add_calls, auth_state, response>>

\* what Telegram answers to get_messages / download_media: the file arrives, or the
\* message is gone or the call raises
DownloadOutcomes == {"completed", "failed"}

\* download_single_media, lines 62-78: load the record, set it downloading
DownloadStart(n) ==
    LET t == dl[n]  k == t.media_id IN
    /\ n \in dl_queue
    /\ t.kind = "single"
    /\ dl_queue' = dl_queue \ {n}
    /\ media' = [media EXCEPT ![k].download_status = "downloading",
                              ![k].download_attempts = @ + 1]
    /\ dl' = [dl EXCEPT ![n].pc = "downloading"]
    /\ UNCHANGED <<now, history, telegram_sessions, user_channels, jobs, messages,
                   queue, worker, sched, keyword_alerts, keyword_matches, channels,
                   user_channel_rows, add_calls, auth_state, response>>

\* download_single_media, lines 80-175: no client -> failed; otherwise the download
\* ends completed, or failed (message not found, or the except block)
DownloadFinish(n, outcome) ==
    LET t == dl[n]  k == t.media_id IN
    /\ n \in 1..Len(dl)
    /\ t.kind = "single"
    /\ t.pc = "downloading"
    /\ media' = [media EXCEPT ![k].download_status =
                    IF get_telegram_client(t.session_id) THEN outcome ELSE "failed"]
    /\ dl' = [dl EXCEPT ![n].pc = "done"]
    /\ UNCHANGED <<now, history, telegram_sessions, user_channels, jobs, messages,
                   queue, worker, sched, dl_queue, keyword_alerts, keyword_matches, channels,
                   user_channel_rows, add_calls, auth_state, response>>

\* download_media_batch, lines 204-232: load up to `limit` pending records (the query
\* has no ORDER BY), return when there is none or no client
BatchStart(n) ==
    LET t == dl[n]
        size == Min({t.limit, Cardinality(PendingMedia(t.channel_id))})
    IN
    /\ n \in dl_queue
    /\ t.kind = "batch"
    /\ dl_queue' = dl_queue \ {n}
    /\ \E L \in { S \in SUBSET PendingMedia(t.channel_id) : Cardinality(S) = size } :
         dl' = [dl EXCEPT ![n] =
                  IF L = {} \/ ~get_telegram_client(t.session_id)
                  THEN [@ EXCEPT !.pc = "done"]
                  ELSE [@ EXCEPT !.pc = "loop", !.media_list = L,
                                 !.attempts_seen = [k \in L |-> media[k].download_attempts]]]
    /\ UNCHANGED <<now, history, telegram_sessions, user_channels, jobs, messages, media,
                   queue, worker, sched, keyword_alerts, keyword_matches, channels,
                   user_channel_rows, add_calls, auth_state, response>>

\* download_media_batch, lines 251-255: the next record of media_list is set
\* downloading; the UPDATE is issued from the values loaded by BatchStart
BatchBegin(n) ==
    LET t == dl[n] IN
    /\ n \in 1..Len(dl)
    /\ t.kind = "batch"
    /\ t.pc = "loop"
    /\ \E k \in t.media_list :
         /\ media' = [media EXCEPT ![k].download_status = "downloading",
                                   ![k].download_attempts = t.attempts_seen[k] + 1]
         /\ dl' = [dl EXCEPT ![n].pc = "item", ![n].current = k,
                             ![n].media_list = @ \ {k}]
    /\ UNCHANGED <<now, history, telegram_sessions, user_channels, jobs, messages,
                   queue, worker, sched, dl_queue, keyword_alerts, keyword_matches, channels,
                   user_channel_rows, add_calls, auth_state, response>>

\* download_media_batch, lines 257-311: the record ends completed or failed, the loop
\* goes on with the next record
BatchFinish(n, outcome) ==
    LET t == dl[n] IN
    /\ n \in 1..Len(dl)
    /\ t.kind = "batch"
    /\ t.pc = "item"
    /\ media' = [media EXCEPT ![t.current].download_status = outcome]
    /\ dl' = [dl EXCEPT ![n].pc = IF t.media_list = {} THEN "done" ELSE "loop",
                        ![n].current = << >>]
    /\ UNCHANGED <<now, history, telegram_sessions, user_channels, jobs, messages,
                   queue, worker, sched, dl_queue, keyword_alerts, keyword_matches, channels,
                   user_channel_rows, add_calls, auth_state, response>>

\* The tables after user 1 ran a full scrape (with scrape_media) of channel 1 in
\* which every message carries a photo: one pending Media row per message.
InitMedia ==
    /\ now = 0
    /\ history = [c \in Channels |->
                    IF c = 1
                    THEN [i \in MsgIds |-> [text |-> PlainText, media_type |-> "photo",
                                            service |-> FALSE]]
                    ELSE << >>]
    /\ telegram_sessions \in SessionSeeds
    /\ user_channels = [uc \in Users \X Channels |->
                          IF uc = <<1, 1>>
                          THEN [FreshUserChannel EXCEPT !.last_scraped_message_id = MaxMsgId]
                          ELSE FreshUserChannel]
    /\ jobs = << [NewJob(1, 1, "full_scrape") EXCEPT
                    !.status = "completed", !.messages_processed = MaxMsgId,
                    !.media_downloaded = MaxMsgId, !.completed_at = 0] >>
    /\ messages = BatchRows(1, 1, MsgIds)
    /\ media = PendingMediaRows(1, 1, MsgIds)
    /\ queue = {}
    /\ worker = [j \in JobIds |->
                   IF j = 1
                   THEN [IdleWorker EXCEPT !.pc = "done", !.result = "completed",
                                           !.args = ScrapeTask(1, 1, 1, 1, 0, TRUE)]
                   ELSE IdleWorker]
    /\ sched = IdleSched
    /\ dl_queue = {}
    /\ dl = << >>
    /\ keyword_alerts = {}
    /\ keyword_matches = {}
    /\ auth_state = [sid \in SessionIds |-> "none"]
    /\ channels = ChannelSeeds
    /\ user_channel_rows = UserChannelRows(user_channels)
    /\ add_calls = [k \in AddCalls |-> IdleAdd]
    /\ response = NoResponse

NextMedia ==
    \/ \E u \in Users, k \in DOMAIN media, s \in telegram_sessions :
          start_media_download(u, k, s.id)
    \/ \E u \in Users, c \in Channels, s \in telegram_sessions, l \in BatchLimits :
          start_batch_download(u, c, s.id, l)
    \/ \E n \in dl_queue : DownloadStart(n)
    \/ \E n \in 1..MaxDownloadTasks, o \in DownloadOutcomes : DownloadFinish(n, o)
    \/ \E n \in dl_queue : BatchStart(n)
    \/ \E n \in 1..MaxDownloadTasks : BatchBegin(n)
    \/ \E n \in 1..MaxDownloadTasks, o \in DownloadOutcomes : BatchFinish(n, o)

SpecMedia == InitMedia /\ [][NextMedia]_vars

\* WorkerSettings.job_timeout: arq cancels a task that runs longer than an hour. The
\* CancelledError is no Exception, so neither except block of the download tasks runs
\* (only the finally blocks, which close the client and the session); what the task
\* committed so far stays as it is and the task is not run again.
DownloadTimeout(n) ==
    /\ n \in 1..Len(dl)
    /\ dl[n].pc \in {"downloading", "loop", "item"}
    /\ dl' = [dl EXCEPT ![n].pc = "done", ![n].current = << >>]
    /\ UNCHANGED <<now, history, telegram_sessions, user_channels, jobs, messages, media,
                   queue, worker, sched, dl_queue, keyword_alerts, keyword_matches, channels,
                   user_channel_rows, add_calls, auth_state, response>>

\* the steps the worker takes on the download tasks it has been given
DownloadStep ==
    \/ \E n \in dl_queue : DownloadStart(n)
    \/ \E n \in 1..MaxDownloadTasks, o \in DownloadOutcomes : DownloadFinish(n, o)
    \/ \E n \in dl_queue : BatchStart(n)
    \/ \E n \in 1..MaxDownloadTasks : BatchBegin(n)
    \/ \E n \in 1..MaxDownloadTasks, o \in DownloadOutcomes : BatchFinish(n, o)

NextMediaTimeout ==
    \/ \E u \in Users, k \in DOMAIN media, s \in telegram_sessions :
          start_media_download(u, k, s.id)
    \/ \E u \in Users, c \in Channels, s \in telegram_sessions, l \in BatchLimits :
          start_batch_download(u, c, s.id, l)
    \/ DownloadStep
    \/ \E n \in 1..MaxDownloadTasks : DownloadTimeout(n)

SpecMediaTimeout == InitMedia /\ [][NextMediaTimeout]_vars

\* the worker keeps taking download tasks from the queue and keeps running them
FairSpecMedia == SpecMediaTimeout /\ WF_vars(DownloadStep)

\* ---------------------------------------------------------------- keyword alerts
\* KeywordAlertCreate.keyword values used by the requests
Keywords == { <<"b", "u", "y">> }

\* KeywordAlertCreate.channel_id: one channel, or NULL for all channels
AlertScopes == Channels \cup {NULL}

\* POST /keywords: 404 for a channel the user does not track, 400 for a duplicate of
\* (user, keyword, channel); is_active defaults to true
create_keyword_alert(u, keyword, channel_id, is_case_sensitive) ==
    /\ channel_id # NULL => user_channels[<<u, channel_id>>].is_active
    /\ ~\E a \in keyword_alerts :
          a.user_id = u /\ a.keyword = keyword /\ a.channel_id = channel_id
    /\ keyword_alerts' = keyword_alerts \cup
          { [user_id |-> u, keyword |-> keyword, channel_id |-> channel_id,
             is_regex |-> FALSE, is_case_sensitive |-> is_case_sensitive,
             is_active |-> TRUE] }
    /\ UNCHANGED <<now, history, telegram_sessions, user_channels, jobs, messages, media,
                   queue, worker, sched, dl_queue, dl, keyword_matches, channels,
                   user_channel_rows, add_calls, auth_state, response>>

\* str.lower() on the characters the texts use
LowerChar(ch) ==
    IF ch = "B" THEN "b" ELSE IF ch = "U" THEN "u" ELSE IF ch = "Y" THEN "y" ELSE ch

Lower(str) == [i \in 1..Len(str) |-> LowerChar(str[i])]

\* `needle in haystack`
Contains(haystack, needle) ==
    \E i \in 0..(Len(haystack) - Len(needle)) :
        \A k \in 1..Len(needle) : haystack[i + k] = needle[k]

\* a non-regex alert matches a text that contains the keyword, compared without
\* case unless is_case_sensitive
Matches(alert, text) ==
    IF alert.is_case_sensitive
    THEN Contains(text, alert.keyword)
    ELSE Contains(Lower(text), Lower(alert.keyword))

\* the active alerts a message of channel c with this text has to trigger
AlertsFor(c, text) ==
    { a \in keyword_alerts :
        /\ a.is_active
        /\ a.channel_id \in {NULL, c}
        /\ Matches(a, text) }

NextKeyword ==
    \/ \E c \in Channels, text \in Texts : PostMessage(c, text, "none")
    \/ \E c \in Channels, jt \in JobTypes : CreateScrapeJob(1, c, jt, TRUE)
    \/ ScrapeStep
    \/ \E u \in Users, sc \in AlertScopes, cs \in BOOLEAN :
          \E kw \in Keywords : create_keyword_alert(u, kw, sc, cs)

SpecKeyword == Init /\ [][NextKeyword]_vars

\* ---------------------------------------------------------------- job queries
\* the dict get_job and get_jobs build for a job
JobView(j) ==
    [id |-> j, channel_id |-> jobs[j].channel_id, job_type |-> jobs[j].job_type,
     status |-> jobs[j].status, messages_processed |-> jobs[j].messages_processed,
     media_downloaded |-> jobs[j].media_downloaded,
     error_message |-> jobs[j].error_message, completed_at |-> jobs[j].completed_at]

\* GET /jobs/{job_id}: JobService.get_job selects on id and user_id
get_job(u, j) ==
    /\ response' = IF j \in 1..Len(jobs) /\ jobs[j].user_id = u
                   THEN Response("get_job", "ok", {JobView(j)})
                   ELSE Response("get_job", "not_found", {})
    /\ UNCHANGED <<now, history, telegram_sessions, user_channels, jobs, messages, media,
                   queue, worker, sched, dl_queue, dl, keyword_alerts, keyword_matches, channels,
                   user_channel_rows, add_calls, auth_state>>

\* the status_filter values of GET /jobs ("none": no filter)
StatusFilters == {"none", "pending", "completed"}

\* GET /jobs: JobService.get_jobs (the default limit of 50 exceeds the jobs of the model)
get_jobs(u, status_filter) ==
    /\ response' = Response("get_jobs", "ok",
                     { JobView(j) : j \in { i \in 1..Len(jobs) :
                          /\ jobs[i].user_id = u
                          /\ status_filter # "none" => jobs[i].status = status_filter } })
    /\ UNCHANGED <<now, history, telegram_sessions, user_channels, jobs, messages, media,
                   queue, worker, sched, dl_queue, dl, keyword_alerts, keyword_matches, channels,
                   user_channel_rows, add_calls, auth_state>>

\* The job endpoints with every input, next to the pipeline that moves the jobs
\* a health answer that looks at the scraping_jobs table
health_status_from_jobs ==
    IF \E j \in 1..Len(jobs) : jobs[j].status = "running" THEN "degraded" ELSE "healthy"

\* main.py:101: the status GET /health reports
health_status == "healthy"

\* GET /health: no dependency on the database session, the queue or the current user
health_check ==
    /\ response' = Response("health_check", health_status, {})
    /\ UNCHANGED <<now, history, telegram_sessions, user_channels, jobs, messages, media,
                   queue, worker, sched, dl_queue, dl, keyword_alerts, keyword_matches,
                   channels, user_channel_rows, add_calls, auth_state>>

NextApi ==
    \/ \E c \in Channels : PostMessage(c, PlainText, "none")
    \/ \E u \in Users, c \in Channels : CreateScrapeJob(u, c, "full_scrape", TRUE)
    \/ ScrapeStep
    \/ \E u \in Users, j \in JobIds : cancel_job(u, j)
    \/ \E u \in Users, j \in JobIds : get_job(u, j)
    \/ \E u \in Users, f \in StatusFilters : get_jobs(u, f)
    \/ health_check

SpecApi == Init /\ [][NextApi]_vars

\* ---------------------------------------------------------------- Telegram sessions
\* TelegramService.get_session: the row with this id that belongs to the user
OwnsSession(u, sid) ==
    \E r \in telegram_sessions : r.id = sid /\ r.user_id = u

SessionRow(sid) == CHOOSE r \in telegram_sessions : r.id = sid

\* the rows after the session sid has been replaced by row
WithSession(sid, row) ==
    (telegram_sessions \ {SessionRow(sid)}) \cup {row}

\* the assignments of a login without the line that stores session_string
AuthenticatedFlagOnly(row) ==
    [row EXCEPT !.is_authenticated = TRUE]

\* lines 214-216, 258-260, 357-359: the login token is stored and the flag is set
Authenticated(row) ==
    [row EXCEPT !.session_string = TRUE, !.is_authenticated = TRUE]

\* what Telegram answers to sign_in followed by get_me
SignInOutcomes == {"ok", "needs_2fa", "error", "get_me_raises"}

\* what Telegram answers to ImportLoginTokenRequest followed by get_me
QrOutcomes == {"success", "waiting", "error", "get_me_raises"}

\* POST /telegram/sessions
create_session(u) ==
    /\ Cardinality(telegram_sessions) < MaxSessions
    /\ telegram_sessions' = telegram_sessions \cup
          { [id |-> Cardinality(telegram_sessions) + 1, user_id |-> u,
             is_authenticated |-> FALSE, session_string |-> FALSE, phone_number |-> FALSE] }
    /\ response' = Response("create_session", "ok", {})
    /\ UNCHANGED <<now, history, user_channels, jobs, messages, media, queue, worker, sched,
                   dl_queue, dl, keyword_alerts, keyword_matches, channels, user_channel_rows,
                   add_calls, auth_state>>

\* send_code: the code request is remembered in _auth_state, the phone number is stored
send_code(u, sid, sent) ==
    /\ IF OwnsSession(u, sid) /\ sent
       THEN /\ auth_state' = [auth_state EXCEPT ![sid] = "code"]
            /\ telegram_sessions' = WithSession(sid, [SessionRow(sid) EXCEPT !.phone_number = TRUE])
            /\ response' = Response("send_code", "sent", {})
       ELSE /\ UNCHANGED <<auth_state, telegram_sessions>>
            /\ response' = Response("send_code", "ValueError", {})
    /\ UNCHANGED <<now, history, user_channels, jobs, messages, media, queue, worker, sched,
                   dl_queue, dl, keyword_alerts, keyword_matches, channels, user_channel_rows, add_calls>>

\* verify_code: needs a phone number (from _auth_state or the row) and a code hash
\* (from the request or _auth_state); the row is written and committed only when
\* sign_in and get_me both return
verify_code(u, sid, with_hash, outcome) ==
    /\ IF /\ OwnsSession(u, sid)
          /\ (auth_state[sid] = "code" \/ SessionRow(sid).phone_number)
          /\ (with_hash \/ auth_state[sid] = "code")
          /\ outcome = "ok"
       THEN /\ telegram_sessions' = WithSession(sid, Authenticated(SessionRow(sid)))
            /\ auth_state' = [auth_state EXCEPT ![sid] = "none"]
            /\ response' = Response("verify_code", "authenticated", {})
       ELSE /\ UNCHANGED <<auth_state, telegram_sessions>>
            /\ response' = Response("verify_code",
                              IF /\ OwnsSession(u, sid)
                                 /\ (auth_state[sid] = "code" \/ SessionRow(sid).phone_number)
                                 /\ (with_hash \/ auth_state[sid] = "code")
                                 /\ outcome = "needs_2fa"
                              THEN "needs_2fa" ELSE "ValueError", {})
    /\ UNCHANGED <<now, history, user_channels, jobs, messages, media, queue, worker, sched,
                   dl_queue, dl, keyword_alerts, keyword_matches, channels, user_channel_rows, add_calls>>

\* verify_2fa
verify_2fa(u, sid, outcome) ==
    /\ IF OwnsSession(u, sid) /\ outcome = "ok"
       THEN /\ telegram_sessions' = WithSession(sid, Authenticated(SessionRow(sid)))
            /\ auth_state' = [auth_state EXCEPT ![sid] = "none"]
            /\ response' = Response("verify_2fa", "authenticated", {})
       ELSE /\ UNCHANGED <<auth_state, telegram_sessions>>
            /\ response' = Response("verify_2fa", "ValueError", {})
    /\ UNCHANGED <<now, history, user_channels, jobs, messages, media, queue, worker, sched,
                   dl_queue, dl, keyword_alerts, keyword_matches, channels, user_channel_rows, add_calls>>

\* start_qr_login: the exported token is remembered in _auth_state
start_qr_login(u, sid, exported) ==
    /\ IF OwnsSession(u, sid) /\ exported
       THEN /\ auth_state' = [auth_state EXCEPT ![sid] = "qr"]
            /\ response' = Response("start_qr_login", "qr", {})
       ELSE /\ UNCHANGED auth_state
            /\ response' = Response("start_qr_login", "ValueError", {})
    /\ UNCHANGED <<now, history, telegram_sessions, user_channels, jobs, messages, media,
                   queue, worker, sched, dl_queue, dl, keyword_alerts, keyword_matches, channels,
                   user_channel_rows, add_calls>>

\* check_qr_login: without a remembered token the answer is "expired"; any exception
\* after the token import is answered "not authenticated"
check_qr_login(u, sid, outcome) ==
    /\ IF OwnsSession(u, sid) /\ auth_state[sid] = "qr" /\ outcome = "success"
       THEN /\ telegram_sessions' =
                 WithSession(sid, [Authenticated(SessionRow(sid)) EXCEPT !.phone_number = TRUE])
            /\ auth_state' = [auth_state EXCEPT ![sid] = "none"]
            /\ response' = Response("check_qr_login", "authenticated", {})
       ELSE /\ UNCHANGED <<auth_state, telegram_sessions>>
            /\ response' = Response("check_qr_login",
                              IF ~OwnsSession(u, sid) THEN "ValueError"
                              ELSE IF auth_state[sid] # "qr" THEN "expired"
                              ELSE "not_authenticated", {})
    /\ UNCHANGED <<now, history, user_channels, jobs, messages, media, queue, worker, sched,
                   dl_queue, dl, keyword_alerts, keyword_matches, channels, user_channel_rows, add_calls>>

\* no session exists yet: users register their Telegram credentials first
InitSession ==
    /\ InitCommon
    /\ telegram_sessions = {}

NextSession ==
    \/ \E u \in Users : create_session(u)
    \/ \E u \in Users, sid \in SessionIds, sent \in BOOLEAN : send_code(u, sid, sent)
    \/ \E u \in Users, sid \in SessionIds, h \in BOOLEAN, o \in SignInOutcomes :
          verify_code(u, sid, h, o)
    \/ \E u \in Users, sid \in SessionIds, o \in SignInOutcomes \ {"needs_2fa"} :
          verify_2fa(u, sid, o)
    \/ \E u \in Users, sid \in SessionIds, ex \in BOOLEAN : start_qr_login(u, sid, ex)
    \/ \E u \in Users, sid \in SessionIds, o \in QrOutcomes : check_qr_login(u, sid, o)

SpecSession == InitSession /\ [][NextSession]_vars

\* ---------------------------------------------------------------- tracked channels
\* select(Channel).where(telegram_id == ...).scalar_one_or_none(): the id of the row
SelectChannel(tid) ==
    IF \E r \in channels : r.telegram_id = tid
    THEN (CHOOSE r \in channels : r.telegram_id = tid).id
    ELSE NULL

\* select(UserChannel).where(user_id == ..., channel_id == ...): the matching rows
SelectUserChannel(u, c) ==
    { r \in user_channel_rows : r.user_id = u /\ r.channel_id = c }

\* ix_channels_telegram_id (unique): a committed row already has this telegram_id
TelegramIdTaken(tid) ==
    \E r \in channels : r.telegram_id = tid

\* another transaction has inserted this telegram_id and not yet committed: the
\* INSERT waits for that transaction to end
TelegramIdPending(k, tid) ==
    \E o \in AddCalls \ {k} : add_calls[o].inserted /\ add_calls[o].telegram_id = tid

\* uq_user_channel: a committed row already has this (user_id, channel_id)
UserChannelTaken(u, c) ==
    SelectUserChannel(u, c) # {}

\* a new primary key (the code draws a uuid4)
FreshId(used) == Max(used \cup {0}) + 1

FreshChannelId ==
    FreshId({ r.id : r \in channels } \cup
            { add_calls[o].channel : o \in { x \in AddCalls : add_calls[x].inserted } })

\* lines 68-72: the row add_channel inserts for a user who has none
NewUserChannel(u, c) ==
    [id |-> FreshId({ r.id : r \in user_channel_rows }), user_id |-> u, channel_id |-> c,
     is_active |-> TRUE, last_scraped_message_id |-> 0]

\* get_channels: the Channel rows joined with the user's active UserChannel rows
TrackedChannels(u) ==
    { ch \in channels :
        \E r \in user_channel_rows : r.user_id = u /\ r.channel_id = ch.id /\ r.is_active }

\* add_channel, lines 33-34: is the telegram_id already known?
add_channel_select(k, u, tid) ==
    /\ add_calls[k].pc = "idle"
    /\ add_calls' = [add_calls EXCEPT ![k] =
          [IdleAdd EXCEPT !.pc = IF SelectChannel(tid) = NULL
                                THEN "flush" ELSE "select_user_channel",
                          !.user_id = u, !.telegram_id = tid,
                          !.channel = SelectChannel(tid)]]
    /\ UNCHANGED <<now, history, telegram_sessions, user_channels, jobs, messages, media,
                   queue, worker, sched, dl_queue, dl, keyword_alerts, keyword_matches,
                   channels, user_channel_rows, auth_state, response>>

\* add_channel, lines 49-56: the Channel row is inserted by the flush; the unique
\* index refuses a telegram_id that is already committed
add_channel_flush(k) ==
    /\ add_calls[k].pc = "flush"
    /\ ~TelegramIdPending(k, add_calls[k].telegram_id)
    /\ IF TelegramIdTaken(add_calls[k].telegram_id)
       THEN /\ add_calls' = [add_calls EXCEPT ![k] = IdleAdd]
            /\ response' = Response("add_channel", "IntegrityError", {})
       ELSE /\ add_calls' = [add_calls EXCEPT ![k].pc = "select_user_channel",
                                              ![k].channel = FreshChannelId,
                                              ![k].inserted = TRUE]
            /\ UNCHANGED response
    /\ UNCHANGED <<now, history, telegram_sessions, user_channels, jobs, messages, media,
                   queue, worker, sched, dl_queue, dl, keyword_alerts, keyword_matches,
                   channels, user_channel_rows, auth_state>>

\* add_channel, lines 59-65: does the user already have a row for this channel?
add_channel_select_user_channel(k) ==
    /\ add_calls[k].pc = "select_user_channel"
    /\ add_calls' = [add_calls EXCEPT
          ![k].pc = "commit",
          ![k].user_channel =
              IF SelectUserChannel(add_calls[k].user_id, add_calls[k].channel) = {}
              THEN NULL
              ELSE (CHOOSE r \in SelectUserChannel(add_calls[k].user_id, add_calls[k].channel) :
                       TRUE).id]
    /\ UNCHANGED <<now, history, telegram_sessions, user_channels, jobs, messages, media,
                   queue, worker, sched, dl_queue, dl, keyword_alerts, keyword_matches,
                   channels, user_channel_rows, auth_state, response>>

\* add_channel, lines 67-77: a UserChannel row is added only when the select found
\* none; an existing row is left as it is. The commit makes the inserted rows
\* visible, or fails on uq_user_channel and rolls the transaction back.
add_channel_commit(k) ==
    /\ add_calls[k].pc = "commit"
    /\ IF /\ add_calls[k].user_channel = NULL
          /\ UserChannelTaken(add_calls[k].user_id, add_calls[k].channel)
       THEN /\ UNCHANGED <<channels, user_channel_rows>>
            /\ response' = Response("add_channel", "IntegrityError", {})
       ELSE /\ channels' = channels \cup
                 (IF add_calls[k].inserted
                  THEN { [id |-> add_calls[k].channel,
                          telegram_id |-> add_calls[k].telegram_id] }
                  ELSE {})
            /\ user_channel_rows' = user_channel_rows \cup
                 (IF add_calls[k].user_channel = NULL
                  THEN { NewUserChannel(add_calls[k].user_id, add_calls[k].channel) }
                  ELSE {})
            /\ response' = Response("add_channel", "ok",
                              { [id |-> add_calls[k].channel,
                                 telegram_id |-> add_calls[k].telegram_id] })
    /\ add_calls' = [add_calls EXCEPT ![k] = IdleAdd]
    /\ UNCHANGED <<now, history, telegram_sessions, user_channels, jobs, messages, media,
                   queue, worker, sched, dl_queue, dl, keyword_alerts, keyword_matches,
                   auth_state>>

\* remove_channel for every user at once
remove_channel_all_users(u, c) ==
    { [r EXCEPT !.is_active = IF r.channel_id = c THEN FALSE ELSE @] : r \in user_channel_rows }

\* remove_channel, line 181: the rows after the caller's row has been deactivated
remove_channel_rows(u, c) ==
    { [r EXCEPT !.is_active = IF r.user_id = u /\ r.channel_id = c THEN FALSE ELSE @] :
        r \in user_channel_rows }

\* DELETE /channels/{channel_id}
remove_channel(u, c) ==
    /\ IF SelectUserChannel(u, c) = {}
       THEN /\ UNCHANGED user_channel_rows
            /\ response' = Response("remove_channel", "not_found", {})
       ELSE /\ user_channel_rows' = remove_channel_rows(u, c)
            /\ response' = Response("remove_channel", "ok", {})
    /\ UNCHANGED <<now, history, telegram_sessions, user_channels, jobs, messages, media,
                   queue, worker, sched, dl_queue, dl, keyword_alerts, keyword_matches,
                   channels, add_calls, auth_state>>

\* GET /channels
get_channels(u) ==
    /\ response' = Response("get_channels", "ok", TrackedChannels(u))
    /\ UNCHANGED <<now, history, telegram_sessions, user_channels, jobs, messages, media,
                   queue, worker, sched, dl_queue, dl, keyword_alerts, keyword_matches,
                   channels, user_channel_rows, add_calls, auth_state>>

\* GET /channels/{channel_id}: None (404) unless the user has an active row
get_channel(u, c) ==
    /\ response' = IF \E ch \in TrackedChannels(u) : ch.id = c
                   THEN Response("get_channel", "ok", { ch \in TrackedChannels(u) : ch.id = c })
                   ELSE Response("get_channel", "not_found", {})
    /\ UNCHANGED <<now, history, telegram_sessions, user_channels, jobs, messages, media,
                   queue, worker, sched, dl_queue, dl, keyword_alerts, keyword_matches,
                   channels, user_channel_rows, add_calls, auth_state>>

\* GET /channels/{channel_id}/messages without filters: the channel's messages when
\* the user has an active row, no message otherwise
get_messages(u, c) ==
    /\ response' = Response("get_messages", "ok",
                      IF \E r \in SelectUserChannel(u, c) : r.is_active
                      THEN { m \in messages : m.channel_id = c }
                      ELSE {})
    /\ UNCHANGED <<now, history, telegram_sessions, user_channels, jobs, messages, media,
                   queue, worker, sched, dl_queue, dl, keyword_alerts, keyword_matches,
                   channels, user_channel_rows, add_calls, auth_state>>

\* the tables after user 1 scraped channel 1, which every user tracks
InitChannel == InitMedia

NextChannel ==
    \/ \E k \in AddCalls, u \in Users, tid \in TelegramIds : add_channel_select(k, u, tid)
    \/ \E k \in AddCalls : add_channel_flush(k)
    \/ \E k \in AddCalls : add_channel_select_user_channel(k)
    \/ \E k \in AddCalls : add_channel_commit(k)
    \/ \E u \in Users, c \in TelegramIds : remove_channel(u, c)
    \/ \E u \in Users : get_channels(u)
    \/ \E u \in Users, c \in TelegramIds : get_channel(u, c)
    \/ \E u \in Users, c \in TelegramIds : get_messages(u, c)

SpecChannel == InitChannel /\ [][NextChannel]_vars

\* ---------------------------------------------------------------- POST /jobs/scrape, every outcome
\* what create_scrape_job answers: the ValueError of create_job (400), the
\* MultipleResultsFound of its second query (500), the ValueError for a user without
\* an authenticated session (400), an error of the enqueue (500), or 201
create_scrape_job_result(u, c, enqueued) ==
    IF create_job_outcome(u, c) # "ok" THEN create_job_outcome(u, c)
    ELSE IF AuthenticatedSessions(u) = {} THEN "no_session"
    ELSE IF ~enqueued THEN "enqueue_error"
    ELSE "created"

\* the whole handler: create_job commits the job row before the session is looked
\* up and before the task is enqueued; no later step removes the row
create_scrape_job(u, c, job_type, scrape_media, enqueued) ==
    /\ create_job_outcome(u, c) = "ok" => Len(jobs) < MaxJobs
    /\ jobs' = IF create_job_outcome(u, c) = "ok"
               THEN Append(jobs, NewJob(u, c, job_type))
               ELSE jobs
    /\ IF create_scrape_job_result(u, c, enqueued) = "created"
       THEN \E s \in AuthenticatedSessions(u) :
              queue' = queue \cup { ScrapeTask(Len(jobs) + 1, u, c, s.id,
                                               api_from_message_id(u, c, job_type), scrape_media) }
       ELSE queue' = queue
    /\ response' = Response("create_scrape_job", create_scrape_job_result(u, c, enqueued), {})
    /\ UNCHANGED <<now, history, telegram_sessions, user_channels, messages, media,
                   worker, sched, dl_queue, dl, keyword_alerts, keyword_matches, channels,
                   user_channel_rows, add_calls, auth_state>>

\* TelegramService.delete_session: the caller's session row is deleted, together
\* with the login in progress
delete_session(u, sid) ==
    /\ IF OwnsSession(u, sid)
       THEN /\ telegram_sessions' = telegram_sessions \ {SessionRow(sid)}
            /\ auth_state' = [auth_state EXCEPT ![sid] = "none"]
            /\ response' = Response("delete_session", "deleted", {})
       ELSE /\ UNCHANGED <<telegram_sessions, auth_state>>
            /\ response' = Response("delete_session", "not_found", {})
    /\ UNCHANGED <<now, history, user_channels, jobs, messages, media, queue, worker, sched,
                   dl_queue, dl, keyword_alerts, keyword_matches, channels,
                   user_channel_rows, add_calls>>

\* user 1 has logged in to Telegram; user 2 has created a session and not verified it
CreateSessionSeeds ==
    { { [id |-> u, user_id |-> u, is_authenticated |-> (u = 1), session_string |-> (u = 1)] :
          u \in Users } }

InitCreate ==
    /\ InitCommon
    /\ telegram_sessions \in CreateSessionSeeds

NextCreate ==
    \/ \E c \in Channels : PostMessage(c, PlainText, "none")
    \/ \E u \in Users, c \in Channels, jt \in JobTypes, enq \in BOOLEAN :
          create_scrape_job(u, c, jt, TRUE, enq)
    \/ \E u \in Users : \E j \in ActiveJobsOf(u) : cancel_job(u, j)
    \/ \E u \in Users, sid \in SessionIds : delete_session(u, sid)
    \/ ScrapeStep

SpecCreate == InitCreate /\ [][NextCreate]_vars

\* the worker keeps taking tasks from the queue and keeps running the tasks it took
FairSpecCreate == SpecCreate /\ WF_vars(ScrapeStep)

\* ================================================================ claims
JobStage(st) == IF st = "pending" THEN 0 ELSE IF st = "running" THEN 1 ELSE 2

\* C1: every change of a ScrapingJob's status moves forward along
\* pending -> running -> completed|failed|cancelled; it never moves back to an
\* earlier stage and never leaves completed, failed or cancelled.
C1_StatusOnlyForward ==
    [][\A j \in 1..Len(jobs) :
          jobs'[j].status # jobs[j].status
            => JobStage(jobs'[j].status) > JobStage(jobs[j].status)]_vars

\* C3: there is at most one Message row per (channel_id, telegram_message_id).
C3_OneRowPerMessage ==
    \A r1 \in messages, r2 \in messages :
        (r1.channel_id = r2.channel_id /\ r1.telegram_message_id = r2.telegram_message_id)
            => r1 = r2

\* the cursor of the requesting user of the task that worker j runs
CursorOf(j) ==
    user_channels[<<worker[j].args.user_id, worker[j].args.channel_id>>].last_scraped_message_id

\* id is the greatest telegram_message_id stored for channel c
IsGreatestStored(id, c) ==
    id \in StoredIds(c) /\ \A i \in StoredIds(c) : i <= id

C6_OneActiveJobPerChannel ==
    \A c \in Channels : Cardinality(ActiveJobsOnChannel(c)) <= 1

\* C7: once cancel_job has marked a job cancelled while scrape_channel iterates, the
\* status stays cancelled through the rest of the run, and the next turn of the loop
\* that makes the cancellation check (messages_processed a multiple of 100) leaves
\* the loop.
C7_CancelStopsScrape ==
    [][\A j \in 1..Len(jobs) :
          (jobs[j].status = "cancelled" /\ worker[j].pc \in {"iterate", "cursor", "complete"})
            => /\ jobs'[j].status = "cancelled"
               /\ (/\ worker[j].pc = "iterate"
                   /\ worker'[j] # worker[j]
                   /\ worker[j].messages_processed % CancelCheckEvery = 0)
                      => worker'[j].pc # "iterate"]_vars

\* the row of user_channels a due_schedules entry was loaded from
RowOf(item) == user_channels[<<item.user_id, item.channel_id>>]

\* the entries of due_schedules the step handles
Handled == sched.due \ sched'.due

\* C5: a scrape task enqueued for an incremental job of POST /jobs/scrape or for a
\* job of check_scheduled_jobs carries from_message_id = the user's
\* last_scraped_message_id at enqueue time, and the job inserts no message with an
\* id at or below that from_message_id.
C5_ResumesFromCursor ==
    [][/\ \A t \in queue' \ queue :
             jobs'[t.job_id].job_type \in {"incremental", "scheduled"}
                => t.from_message_id =
                     user_channels[<<t.user_id, t.channel_id>>].last_scraped_message_id
       /\ \A r \in messages' \ messages :
             r.telegram_message_id > worker[r.row].args.from_message_id]_vars

\* C8: when a run of check_scheduled_jobs handles a UserChannel that is due, whose
\* channel has no pending or running job and whose user has at least one
\* authenticated session, it creates exactly one ScrapingJob (scheduled, pending)
\* and enqueues exactly one scrape_channel_task for it.
C8_DueScheduleQueuesJob ==
    [][\A item \in Handled :
          (/\ RowOf(item).schedule_enabled
           /\ RowOf(item).is_active
           /\ RowOf(item).next_scheduled_at # NULL
           /\ RowOf(item).next_scheduled_at <= now
           /\ ActiveJobsOnChannel(item.channel_id) = {}
           /\ AuthenticatedSessions(item.user_id) # {})
            => /\ Len(jobs') = Len(jobs) + 1
               /\ jobs'[Len(jobs')].job_type = "scheduled"
               /\ jobs'[Len(jobs')].status = "pending"
               /\ jobs'[Len(jobs')].user_id = item.user_id
               /\ jobs'[Len(jobs')].channel_id = item.channel_id
               /\ Cardinality({ t \in queue' \ queue : t.job_id = Len(jobs') }) = 1
               /\ Cardinality(queue' \ queue) = 1]_vars

\* C9: after check_scheduled_jobs has handled a due UserChannel by queuing a job or
\* by skipping it because a job is active on the channel, last_scheduled_at is the
\* current time and next_scheduled_at is the current time plus
\* schedule_interval_hours (24 if unset), so it is not due again before that.
C9_HandledIsRescheduled ==
    [][\A item \in Handled :
          (Len(jobs') > Len(jobs) \/ ActiveJobsOnChannel(item.channel_id) # {})
            => /\ RowOf(item)'.last_scheduled_at = now
               /\ RowOf(item)'.next_scheduled_at =
                    calculate_next_run(RowOf(item)'.schedule_interval_hours)
               /\ RowOf(item)'.next_scheduled_at > now]_vars

\* the changes of Media.download_status the state machine allows
MediaTransitions ==
    { <<"pending", "downloading">>, <<"downloading", "completed">>,
      <<"downloading", "failed">> }

\* C2: every change of a Media record's download_status is pending -> downloading,
\* downloading -> completed or downloading -> failed; a completed or failed record
\* never changes status again.
C2_MediaStatusMachine ==
    [][\A k \in DOMAIN media :
          media'[k].download_status # media[k].download_status
            => <<media[k].download_status, media'[k].download_status>> \in MediaTransitions]_vars

\* C10: whenever a scrape persists a new message whose text matches an active
\* keyword alert (scoped to the message's channel or to all channels), the same
\* commit leaves a KeywordMatch row linking the alert and the message.
C10_MatchRecorded ==
    [][\A r \in messages' \ messages :
          \A a \in AlertsFor(r.channel_id, r.message_text) :
             \E km \in keyword_matches' :
                km.keyword_alert = a /\ km.message = r]_vars

\* job j exists and belongs to user u
OwnsJob(u, j) == j \in 1..Len(jobs) /\ jobs[j].user_id = u

\* C11: cancel_job succeeds exactly for a job of the caller that is pending or
\* running, and then sets status cancelled and completed_at and nothing else; for a
\* job of the caller that is completed, failed or cancelled it raises the ValueError
\* and leaves the jobs unchanged.
C11_CancelOnlyActive ==
    [][\A u \in Users, j \in JobIds :
          cancel_job(u, j) =>
            /\ response'.result = "cancelled"
                 <=> (OwnsJob(u, j) /\ jobs[j].status \in {"pending", "running"})
            /\ response'.result = "cancelled"
                 => jobs' = [jobs EXCEPT ![j].status = "cancelled", ![j].completed_at = now]
            /\ (OwnsJob(u, j) /\ jobs[j].status \in {"completed", "failed", "cancelled"})
                 => (response'.result = "ValueError" /\ jobs' = jobs)]_vars

\* C11 witness: a cancel request for a finished job was answered with the ValueError
C11_Witness ==
    /\ response = Response("cancel_job", "ValueError", {})
    /\ \E j \in 1..Len(jobs) : jobs[j].status = "completed"

\* C12: for a job that is not the caller's, get_job and cancel_job answer not-found
\* and leave the jobs unchanged, and get_jobs returns only jobs of the caller.
C12_JobsAreTenantScoped ==
    [][/\ \A u \in Users, j \in 1..Len(jobs) :
             jobs[j].user_id # u =>
               /\ get_job(u, j) => (response'.result = "not_found" /\ response'.rows = {})
               /\ cancel_job(u, j) => (response'.result = "not_found" /\ jobs' = jobs)
       /\ \A u \in Users, f \in StatusFilters :
             get_jobs(u, f) => \A v \in response'.rows : OwnsJob(u, v.id)]_vars

\* C12 witness: every job id exists, so the not-found answer to the cancel request
\* was given for a job of another user; that job is still pending or running
C12_Witness ==
    /\ Len(jobs) = MaxJobs
    /\ response = Response("cancel_job", "not_found", {})
    /\ \A j \in 1..Len(jobs) : jobs[j].status \in {"pending", "running"}

\* the sessions that are authenticated after the step and were not before it
NewlyAuthenticated ==
    { r \in telegram_sessions' :
        /\ r.is_authenticated
        /\ ~\E q \in telegram_sessions : q.id = r.id /\ q.is_authenticated }

C14_AddedChannelIsTracked ==
    [][\A k \in AddCalls, u \in Users, tid \in TelegramIds :
          (/\ add_calls[k].user_id = u
           /\ add_calls[k].telegram_id = tid
           /\ add_channel_commit(k)
           /\ response'.result = "ok") =>
             \E ch \in TrackedChannels(u)' : ch.telegram_id = tid]_vars

\* C15: at most one Channel row per telegram_id and at most one UserChannel row per
\* (user, channel), and an add_channel call for a telegram_id that is or becomes
\* known uses the existing Channel row instead of failing, also when it runs
\* interleaved with another add_channel call.
C15_OneRowPerKey ==
    /\ \A a, b \in channels : a.telegram_id = b.telegram_id => a = b
    /\ \A a, b \in user_channel_rows :
          (a.user_id = b.user_id /\ a.channel_id = b.channel_id) => a = b
    /\ ~(response.op = "add_channel" /\ response.result = "IntegrityError")

\* the part of C15 about the tables alone
C15_UniqueRows ==
    /\ \A a, b \in channels : a.telegram_id = b.telegram_id => a = b
    /\ \A a, b \in user_channel_rows :
          (a.user_id = b.user_id /\ a.channel_id = b.channel_id) => a = b

\* C16: remove_channel only sets is_active to false on the caller's UserChannel row;
\* the Channel, Message, Media and ScrapingJob rows, the scrape cursor and the other
\* users' rows stay as they are; afterwards get_channel answers None and
\* get_messages answers no message for that user and channel.
C16_RemoveIsSoftDelete ==
    /\ [][\A u \in Users, c \in TelegramIds :
            (remove_channel(u, c) /\ response'.result = "ok") =>
               /\ UNCHANGED <<channels, messages, media, jobs, user_channels>>
               /\ \A r \in user_channel_rows :
                     IF r.user_id = u /\ r.channel_id = c
                     THEN [r EXCEPT !.is_active = FALSE] \in user_channel_rows'
                     ELSE r \in user_channel_rows'
               /\ Cardinality(user_channel_rows') = Cardinality(user_channel_rows)]_vars
    /\ [][\A u \in Users, c \in TelegramIds :
            (\A r \in user_channel_rows : (r.user_id = u /\ r.channel_id = c) => ~r.is_active) =>
               /\ get_channel(u, c) => response'.result = "not_found"
               /\ get_messages(u, c) => response'.rows = {}]_vars

\* C16 witness: user 1 removed channel 1, whose messages are stored and which user 2
\* still tracks, and then asked for its messages
C16_Witness ==
    /\ response = Response("get_messages", "ok", {})
    /\ \E m \in messages : m.channel_id = 1
    /\ \E r \in user_channel_rows : r.user_id = 1 /\ r.channel_id = 1 /\ ~r.is_active
                                    /\ r.last_scraped_message_id = MaxMsgId
    /\ \E r \in user_channel_rows : r.user_id = 2 /\ r.channel_id = 1 /\ r.is_active

\* C17: GET /health can be answered in every state, and the answer is 'healthy'
\* whatever the tables, the queue, the sessions and the jobs hold.
C17_HealthAlwaysHealthy ==
    /\ [](ENABLED health_check)
    /\ [][health_check => (response'.op = "health_check" /\ response'.result = "healthy")]_vars

\* C17 witness: /health was asked while a scrape was running and a task was queued
C17_Witness ==
    /\ response.op = "health_check"
    /\ \E j \in 1..Len(jobs) : jobs[j].status = "running"
    /\ queue # {}

\* C18: a POST /jobs/scrape that answers an error leaves no ScrapingJob row behind,
\* so the next POST /jobs/scrape for the channel is not refused as 'already running'
\* because of it.
C18_FailedRequestLeavesNoJob ==
    [][\A u \in Users, c \in Channels, jt \in JobTypes, enq \in BOOLEAN :
          (create_scrape_job(u, c, jt, TRUE, enq) /\ response'.result # "created")
             => jobs' = jobs]_vars

\* C19: every ScrapingJob that has been created eventually is completed, failed or
\* cancelled, when the worker keeps taking tasks from the queue.
C19_EveryJobEnds ==
    \A j \in JobIds :
        (j <= Len(jobs))
           ~> (j <= Len(jobs) /\ jobs[j].status \in {"completed", "failed", "cancelled"})

C21_NoGapBelowCursor ==
    \A u \in Users, c \in Channels :
        \A id \in 1..user_channels[<<u, c>>].last_scraped_message_id : id \in StoredIds(c)

\* C21: whenever a UserChannel has a cursor c > 0, every message of the channel with
\* an id up to c that is not a service message has a Message row.
C21_NoMessageGapBelowCursor ==
    \A u \in Users, c \in Channels :
        \A id \in 1..user_channels[<<u, c>>].last_scraped_message_id :
            ~history[c][id].service => id \in StoredIds(c)

\* C21 witness: a cursor above a service message and a stored message, after a job
\* of another user failed
C21_Witness ==
    \E u \in Users, c \in Channels :
        /\ user_channels[<<u, c>>].last_scraped_message_id = MaxMsgId
        /\ \E id \in 1..MaxMsgId : history[c][id].service
        /\ \E id \in 1..MaxMsgId : ~history[c][id].service /\ id \in StoredIds(c)
        /\ \E j \in 1..Len(jobs) : jobs[j].status = "failed" /\ jobs[j].user_id # u

C23_ProcessedCountsRows ==
    \A j \in 1..Len(jobs) :
        (worker[j].pc = "done" /\ jobs[j].status \in {"completed", "failed"})
           => jobs[j].messages_processed = Cardinality({ m \in messages : m.row = j })

\* C24: a Media record is in the hands of at most one download task at a time (no
\* second run of download_single_media or download_media_batch sets it downloading
\* while a first one is still between "downloading" and its final status), and
\* start_media_download enqueues no task for a record that is downloading or completed.
C24_OneTaskPerMedia ==
    /\ [](\A k \in DOMAIN media :
            Cardinality({ n \in 1..Len(dl) :
                            \/ dl[n].kind = "single" /\ dl[n].pc = "downloading"
                                                     /\ dl[n].media_id = k
                            \/ dl[n].kind = "batch" /\ dl[n].pc = "item"
                                                    /\ dl[n].current = k }) <= 1)
    /\ [][\A k \in DOMAIN media :
            (Len(dl') = Len(dl) + 1 /\ dl'[Len(dl')].kind = "single"
                                   /\ dl'[Len(dl')].media_id = k)
               => media[k].download_status \notin {"completed", "downloading"}]_vars

\* C25: every Media record that is downloading later becomes completed or failed.
C25_DownloadingEnds ==
    \A k \in JobIds \X MsgIds :
        (k \in DOMAIN media /\ media[k].download_status = "downloading")
           ~> (k \in DOMAIN media /\ media[k].download_status \in {"completed", "failed"})

\* C26: a UserChannel whose schedule is disabled has no next_scheduled_at.
C26_DisabledHasNoNextRun ==
    \A u \in Users, c \in Channels :
        ~user_channels[<<u, c>>].schedule_enabled
           => user_channels[<<u, c>>].next_scheduled_at = NULL

\* C27: a turn of the loop of check_scheduled_jobs either creates one job and
\* enqueues its task, or (error, missing session, active job) creates no job and
\* enqueues nothing; in both cases only the UserChannel it handled leaves the
\* list of the run, so the remaining due UserChannels are still processed.
C27_ErrorLeavesNoJob ==
    [][\A item \in Handled :
          /\ sched'.due = sched.due \ {item}
          /\ \/ jobs' = jobs /\ queue' = queue
             \/ /\ Len(jobs') = Len(jobs) + 1
                /\ \E t \in queue' \ queue :
                      /\ t.job_id = Len(jobs')
                      /\ t.user_id = item.user_id
                      /\ t.channel_id = item.channel_id]_vars

====
